---- MODULE Spec2Model ----
(***************************************************************************)
(* Translation request pipeline of app/main.py: validation, language       *)
(* detection with a heuristic confidence, same-language short-circuit,     *)
(* delegation to the translator and error-to-HTTP mapping.                 *)
(*                                                                         *)
(* Representation:                                                         *)
(*  - a text is a sequence of one-character strings;                       *)
(*  - a confidence is kept in hundredths (0.95 is 95, 0.5 is 50).  The     *)
(*    only float operations of the code are 0.7 + len*0.01 and the         *)
(*    comparison with 0.95 inside min(); for every length the double       *)
(*    result orders against 0.95 exactly as the hundredths do;             *)
(*  - the language mapping is the sequence of its entries in insertion     *)
(*    order (its keys are pairwise different); non-ASCII characters of     *)
(*    native_name are written as their \uXXXX escapes.                     *)
(***************************************************************************)
EXTENDS Integers, Sequences, FiniteSets, TLC

\* ---------------------------------------------------------------- bounds
NumReqs == 2
MaxInFlight == 2
MaxPad == 1
MaxBody == 26

\* ------------------------------------------------- supported languages
SUPPORTED_LANGUAGES ==
  <<
    [code |-> "af", name |-> "Afrikaans",
     native_name |-> "Afrikaans"],
    [code |-> "sq", name |-> "Albanian",
     native_name |-> "Shqip"],
    [code |-> "am", name |-> "Amharic",
     native_name |-> "\\u12a0\\u121b\\u122d\\u129b"],
    [code |-> "ar", name |-> "Arabic",
     native_name |-> "\\u0627\\u0644\\u0639\\u0631\\u0628\\u064a\\u0629"],
    [code |-> "hy", name |-> "Armenian",
     native_name |-> "\\u0540\\u0561\\u0575\\u0565\\u0580\\u0565\\u0576"],
    [code |-> "az", name |-> "Azerbaijani",
     native_name |-> "Az\\u0259rbaycan"],
    [code |-> "eu", name |-> "Basque",
     native_name |-> "Euskara"],
    [code |-> "be", name |-> "Belarusian",
     native_name |-> "\\u0411\\u0435\\u043b\\u0430\\u0440\\u0443\\u0441\\u043a\\u0430\\u044f"],
    [code |-> "bn", name |-> "Bengali",
     native_name |-> "\\u09ac\\u09be\\u0982\\u09b2\\u09be"],
    [code |-> "bs", name |-> "Bosnian",
     native_name |-> "Bosanski"],
    [code |-> "bg", name |-> "Bulgarian",
     native_name |-> "\\u0411\\u044a\\u043b\\u0433\\u0430\\u0440\\u0441\\u043a\\u0438"],
    [code |-> "ca", name |-> "Catalan",
     native_name |-> "Catal\\u00e0"],
    [code |-> "ceb", name |-> "Cebuano",
     native_name |-> "Cebuano"],
    [code |-> "zh", name |-> "Chinese (Simplified)",
     native_name |-> "\\u4e2d\\u6587 (\\u7b80\\u4f53)"],
    [code |-> "zh-TW", name |-> "Chinese (Traditional)",
     native_name |-> "\\u4e2d\\u6587 (\\u7e41\\u9ad4)"],
    [code |-> "co", name |-> "Corsican",
     native_name |-> "Corsu"],
    [code |-> "hr", name |-> "Croatian",
     native_name |-> "Hrvatski"],
    [code |-> "cs", name |-> "Czech",
     native_name |-> "\\u010ce\\u0161tina"],
    [code |-> "da", name |-> "Danish",
     native_name |-> "Dansk"],
    [code |-> "nl", name |-> "Dutch",
     native_name |-> "Nederlands"],
    [code |-> "en", name |-> "English",
     native_name |-> "English"],
    [code |-> "eo", name |-> "Esperanto",
     native_name |-> "Esperanto"],
    [code |-> "et", name |-> "Estonian",
     native_name |-> "Eesti"],
    [code |-> "fi", name |-> "Finnish",
     native_name |-> "Suomi"],
    [code |-> "fr", name |-> "French",
     native_name |-> "Fran\\u00e7ais"],
    [code |-> "fy", name |-> "Frisian",
     native_name |-> "Frysk"],
    [code |-> "gl", name |-> "Galician",
     native_name |-> "Galego"],
    [code |-> "ka", name |-> "Georgian",
     native_name |-> "\\u10e5\\u10d0\\u10e0\\u10d7\\u10e3\\u10da\\u10d8"],
    [code |-> "de", name |-> "German",
     native_name |-> "Deutsch"],
    [code |-> "el", name |-> "Greek",
     native_name |-> "\\u0395\\u03bb\\u03bb\\u03b7\\u03bd\\u03b9\\u03ba\\u03ac"],
    [code |-> "gu", name |-> "Gujarati",
     native_name |-> "\\u0a97\\u0ac1\\u0a9c\\u0ab0\\u0abe\\u0aa4\\u0ac0"],
    [code |-> "ht", name |-> "Haitian Creole",
     native_name |-> "Krey\\u00f2l Ayisyen"],
    [code |-> "ha", name |-> "Hausa",
     native_name |-> "Hausa"],
    [code |-> "haw", name |-> "Hawaiian",
     native_name |-> "\\u02bb\\u014clelo Hawai\\u02bbi"],
    [code |-> "he", name |-> "Hebrew",
     native_name |-> "\\u05e2\\u05d1\\u05e8\\u05d9\\u05ea"],
    [code |-> "hi", name |-> "Hindi",
     native_name |-> "\\u0939\\u093f\\u0928\\u094d\\u0926\\u0940"],
    [code |-> "hmn", name |-> "Hmong",
     native_name |-> "Hmong"],
    [code |-> "hu", name |-> "Hungarian",
     native_name |-> "Magyar"],
    [code |-> "is", name |-> "Icelandic",
     native_name |-> "\\u00cdslenska"],
    [code |-> "ig", name |-> "Igbo",
     native_name |-> "Igbo"],
    [code |-> "id", name |-> "Indonesian",
     native_name |-> "Indonesia"],
    [code |-> "ga", name |-> "Irish",
     native_name |-> "Gaeilge"],
    [code |-> "it", name |-> "Italian",
     native_name |-> "Italiano"],
    [code |-> "ja", name |-> "Japanese",
     native_name |-> "\\u65e5\\u672c\\u8a9e"],
    [code |-> "jv", name |-> "Javanese",
     native_name |-> "Basa Jawa"],
    [code |-> "kn", name |-> "Kannada",
     native_name |-> "\\u0c95\\u0ca8\\u0ccd\\u0ca8\\u0ca1"],
    [code |-> "kk", name |-> "Kazakh",
     native_name |-> "\\u049a\\u0430\\u0437\\u0430\\u049b"],
    [code |-> "km", name |-> "Khmer",
     native_name |-> "\\u1781\\u17d2\\u1798\\u17c2\\u179a"],
    [code |-> "ko", name |-> "Korean",
     native_name |-> "\\ud55c\\uad6d\\uc5b4"],
    [code |-> "ku", name |-> "Kurdish",
     native_name |-> "Kurd\\u00ee"],
    [code |-> "ky", name |-> "Kyrgyz",
     native_name |-> "\\u041a\\u044b\\u0440\\u0433\\u044b\\u0437\\u0447\\u0430"],
    [code |-> "lo", name |-> "Lao",
     native_name |-> "\\u0ea5\\u0eb2\\u0ea7"],
    [code |-> "la", name |-> "Latin",
     native_name |-> "Latina"],
    [code |-> "lv", name |-> "Latvian",
     native_name |-> "Latvie\\u0161u"],
    [code |-> "lt", name |-> "Lithuanian",
     native_name |-> "Lietuvi\\u0173"],
    [code |-> "lb", name |-> "Luxembourgish",
     native_name |-> "L\\u00ebtzebuergesch"],
    [code |-> "mk", name |-> "Macedonian",
     native_name |-> "\\u041c\\u0430\\u043a\\u0435\\u0434\\u043e\\u043d\\u0441\\u043a\\u0438"],
    [code |-> "mg", name |-> "Malagasy",
     native_name |-> "Malagasy"],
    [code |-> "ms", name |-> "Malay",
     native_name |-> "Bahasa Melayu"],
    [code |-> "ml", name |-> "Malayalam",
     native_name |-> "\\u0d2e\\u0d32\\u0d2f\\u0d3e\\u0d33\\u0d02"],
    [code |-> "mt", name |-> "Maltese",
     native_name |-> "Malti"],
    [code |-> "mi", name |-> "Maori",
     native_name |-> "M\\u0101ori"],
    [code |-> "mr", name |-> "Marathi",
     native_name |-> "\\u092e\\u0930\\u093e\\u0920\\u0940"],
    [code |-> "mn", name |-> "Mongolian",
     native_name |-> "\\u041c\\u043e\\u043d\\u0433\\u043e\\u043b"],
    [code |-> "my", name |-> "Myanmar (Burmese)",
     native_name |-> "\\u1019\\u103c\\u1014\\u103a\\u1019\\u102c (\\u1017\\u1019\\u102c)"],
    [code |-> "ne", name |-> "Nepali",
     native_name |-> "\\u0928\\u0947\\u092a\\u093e\\u0932\\u0940"],
    [code |-> "no", name |-> "Norwegian",
     native_name |-> "Norsk"],
    [code |-> "ny", name |-> "Nyanja (Chichewa)",
     native_name |-> "Nyanja (Chichewa)"],
    [code |-> "or", name |-> "Odia (Oriya)",
     native_name |-> "\\u0b13\\u0b21\\u0b3c\\u0b3f\\u0b06 (\\u0b13\\u0b21\\u0b3c\\u0b3f\\u0b06)"],
    [code |-> "ps", name |-> "Pashto",
     native_name |-> "\\u067e\\u069a\\u062a\\u0648"],
    [code |-> "fa", name |-> "Persian",
     native_name |-> "\\u0641\\u0627\\u0631\\u0633\\u06cc"],
    [code |-> "pl", name |-> "Polish",
     native_name |-> "Polski"],
    [code |-> "pt", name |-> "Portuguese",
     native_name |-> "Portugu\\u00eas"],
    [code |-> "pa", name |-> "Punjabi",
     native_name |-> "\\u0a2a\\u0a70\\u0a1c\\u0a3e\\u0a2c\\u0a40"],
    [code |-> "ro", name |-> "Romanian",
     native_name |-> "Rom\\u00e2n\\u0103"],
    [code |-> "ru", name |-> "Russian",
     native_name |-> "\\u0420\\u0443\\u0441\\u0441\\u043a\\u0438\\u0439"],
    [code |-> "sm", name |-> "Samoan",
     native_name |-> "Gagana Samoa"],
    [code |-> "gd", name |-> "Scots Gaelic",
     native_name |-> "G\\u00e0idhlig"],
    [code |-> "sr", name |-> "Serbian",
     native_name |-> "\\u0421\\u0440\\u043f\\u0441\\u043a\\u0438"],
    [code |-> "st", name |-> "Sesotho",
     native_name |-> "Sesotho"],
    [code |-> "sn", name |-> "Shona",
     native_name |-> "Shona"],
    [code |-> "sd", name |-> "Sindhi",
     native_name |-> "\\u0633\\u0646\\u068c\\u064a"],
    [code |-> "si", name |-> "Sinhala (Sinhalese)",
     native_name |-> "\\u0dc3\\u0dd2\\u0d82\\u0dc4\\u0dbd"],
    [code |-> "sk", name |-> "Slovak",
     native_name |-> "Sloven\\u010dina"],
    [code |-> "sl", name |-> "Slovenian",
     native_name |-> "Sloven\\u0161\\u010dina"],
    [code |-> "so", name |-> "Somali",
     native_name |-> "Soomaali"],
    [code |-> "es", name |-> "Spanish",
     native_name |-> "Espa\\u00f1ol"],
    [code |-> "su", name |-> "Sundanese",
     native_name |-> "Basa Sunda"],
    [code |-> "sw", name |-> "Swahili",
     native_name |-> "Kiswahili"],
    [code |-> "sv", name |-> "Swedish",
     native_name |-> "Svenska"],
    [code |-> "tg", name |-> "Tajik",
     native_name |-> "\\u0422\\u043e\\u04b7\\u0438\\u043a\\u04e3"],
    [code |-> "ta", name |-> "Tamil",
     native_name |-> "\\u0ba4\\u0bae\\u0bbf\\u0bb4\\u0bcd"],
    [code |-> "tt", name |-> "Tatar",
     native_name |-> "\\u0422\\u0430\\u0442\\u0430\\u0440"],
    [code |-> "te", name |-> "Telugu",
     native_name |-> "\\u0c24\\u0c46\\u0c32\\u0c41\\u0c17\\u0c41"],
    [code |-> "th", name |-> "Thai",
     native_name |-> "\\u0e44\\u0e17\\u0e22"],
    [code |-> "tr", name |-> "Turkish",
     native_name |-> "T\\u00fcrk\\u00e7e"],
    [code |-> "tk", name |-> "Turkmen",
     native_name |-> "T\\u00fcrkmen"],
    [code |-> "ak", name |-> "Twi",
     native_name |-> "Twi"],
    [code |-> "uk", name |-> "Ukrainian",
     native_name |-> "\\u0423\\u043a\\u0440\\u0430\\u0457\\u043d\\u0441\\u044c\\u043a\\u0430"],
    [code |-> "ur", name |-> "Urdu",
     native_name |-> "\\u0627\\u0631\\u062f\\u0648"],
    [code |-> "ug", name |-> "Uyghur",
     native_name |-> "\\u0626\\u06c7\\u064a\\u063a\\u06c7\\u0631\\u0686\\u06d5"],
    [code |-> "uz", name |-> "Uzbek",
     native_name |-> "O'zbek"],
    [code |-> "ve", name |-> "Venda",
     native_name |-> "Tshivenda"],
    [code |-> "vi", name |-> "Vietnamese",
     native_name |-> "Ti\\u1ebfng Vi\\u1ec7t"],
    [code |-> "cy", name |-> "Welsh",
     native_name |-> "Cymraeg"],
    [code |-> "xh", name |-> "Xhosa",
     native_name |-> "isiXhosa"],
    [code |-> "yi", name |-> "Yiddish",
     native_name |-> "\\u05d9\\u05d9\\u05d3\\u05d9\\u05e9"],
    [code |-> "yo", name |-> "Yoruba",
     native_name |-> "Yor\\u00f9b\\u00e1"],
    [code |-> "zu", name |-> "Zulu",
     native_name |-> "isiZulu"]
  >>

\* ------------------------------------------------------------ input sets
Reqs == 1..NumReqs

\* characters removed by str.strip()
Whitespace == {" ", "\t", "\n"}

RECURSIVE Rep(_, _)
Rep(c, n) == IF n = 0 THEN <<>> ELSE <<c>> \o Rep(c, n - 1)

Pads == {Rep(" ", i) : i \in 0..MaxPad}

Bodies == {Rep("a", j) : j \in 0..MaxBody} \cup {<<"a", " ", "b">>}

\* request texts: optional leading and trailing blanks around a body
Texts == {l \o b \o t : l \in Pads, b \in Bodies, t \in Pads}

\* request target codes: four keys of the table and one unknown code
TargetLanguages == {"en", "fr", "zh", "zh-TW", "xx"}

\* codes the detector may answer ("zh-tw" is no key of the table)
DetectorCodes == {"en", "fr", "zh-tw"}

\* str(e) of the exceptions the collaborators raise
DetectorMessages == {"No features in text."}

TranslatorMessages == {"Request exception"}

\* str(e) of an exception that no collaborator raised (MemoryError,
\* RecursionError, a validation error of the response model)
UnexpectedMessages == {"MemoryError"}

DetectorOutcomes ==
  {[kind |-> "return", lang |-> c, msg |-> ""] : c \in DetectorCodes}
    \cup {[kind |-> "raise", lang |-> "", msg |-> m] : m \in DetectorMessages}

TranslatorTexts == {<<"x">>}

\* the translator returns a string (possibly empty), returns None, or raises
TranslatorOutcomes ==
  {[kind |-> "return", value |-> v, msg |-> ""] :
      v \in TranslatorTexts \cup {<<>>}}
    \cup {[kind |-> "return_none", value |-> <<>>, msg |-> ""]}
    \cup {[kind |-> "raise", value |-> <<>>, msg |-> m] :
            m \in TranslatorMessages}

\* --------------------------------------------------------- pure helpers
Min(a, b) == IF a <= b THEN a ELSE b

RECURSIVE lstrip(_)
lstrip(s) ==
  IF s = <<>> THEN <<>>
  ELSE IF Head(s) \in Whitespace THEN lstrip(Tail(s)) ELSE s

RECURSIVE rstrip(_)
rstrip(s) ==
  IF s = <<>> THEN <<>>
  ELSE IF s[Len(s)] \in Whitespace THEN rstrip(SubSeq(s, 1, Len(s) - 1)) ELSE s

strip(s) == rstrip(lstrip(s))

\* keys of the language mapping
Keys(tbl) == {tbl[i].code : i \in 1..Len(tbl)}

\* Python truthiness of the translator's return value
Falsy(o) == o.kind = "return_none" \/ (o.kind = "return" /\ o.value = <<>>)

\* ------------------------------------------------------------- records
NoBody ==
  [original_text |-> <<>>, detected_language |-> "", confidence_level |-> 0,
   translated_text |-> <<>>, target_language |-> ""]

TranslationResponse(original, detected, conf, translated, target) ==
  [original_text |-> original, detected_language |-> detected,
   confidence_level |-> conf, translated_text |-> translated,
   target_language |-> target]

\* how a block of the handler ends: it returns a body, raises an
\* HTTPException(status, detail), or raises some other Exception
Returned(body) ==
  [kind |-> "return", exc |-> "", msg |-> "", status |-> 200, detail |-> "",
   body |-> body]

\* msg stands for str(e); for an HTTPException it is made of its detail
HTTPException(status, detail) ==
  [kind |-> "raise", exc |-> "HTTPException", msg |-> detail,
   status |-> status, detail |-> detail, body |-> NoBody]

OtherException ==
  [kind |-> "raise", exc |-> "Exception", msg |-> "", status |-> 0,
   detail |-> "", body |-> NoBody]

\* an exception other than HTTPException, with its text
Raised(msg) == [OtherException EXCEPT !.msg = msg]

\* logger.error(f"<line>: {e}")
LogEntry(line, e) == [line |-> line, exc |-> e]

NoResponse == [status |-> 0, detail |-> "", body |-> NoBody]

\* the HTTP layer turns the handler's end into the response on the wire
HttpResponse(x) == [status |-> x.status, detail |-> x.detail, body |-> x.body]

NoTranslation == [kind |-> "pending", value |-> <<>>, msg |-> ""]

IdleReq ==
  [pc |-> "idle", text |-> <<>>, target_language |-> "",
   detect_result |-> "pending", detected_lang |-> "", confidence |-> 0,
   translate_result |-> NoTranslation, fault |-> "",
   calls |-> <<>>, log |-> <<>>, response |-> NoResponse]

\* variant: the detector is given the trimmed text
DetectCall_Trimmed(text) ==
  [svc |-> "detect", text |-> strip(text), source |-> "", target |-> ""]

DetectCall(text) ==
  [svc |-> "detect", text |-> text, source |-> "", target |-> ""]

TranslateCall(text, source, target) ==
  [svc |-> "translate", text |-> text, source |-> source, target |-> target]

LanguageInfo(code, name, native_name) ==
  [code |-> code, name |-> name, native_name |-> native_name]

\* answers of GET /api/languages and GET /api/health, none given yet
NoApiResponses ==
  [languages |-> [status |-> 0, body |-> <<>>],
   health |-> [status |-> 0, body |-> [status |-> "", service |-> ""]]]

\* ------------------------------------- front end of app/main_vercel.py
\* what the user can have in the text area and in the target selector
UITexts == {<<>>, <<" ">>, <<"a">>, <<"b", " ">>}

UITargets == {"", "fr"}

\* how a fetch of /api/translate settles: a 200 answer, an error status
\* with or without a detail in its JSON body, or a rejected promise
FetchOutcomes ==
  {[kind |-> "ok", detail |-> ""],
   [kind |-> "http_error", detail |-> "Translation service error"],
   [kind |-> "http_error", detail |-> ""],
   [kind |-> "network", detail |-> "Failed to fetch"]}

\* the page after DOMContentLoaded: constructor run, /api/languages pending
PageLoaded ==
  [inputText |-> <<>>, targetValue |-> "", options |-> "loading",
   loading |-> FALSE, btnDisabled |-> FALSE,
   resultsShown |-> FALSE, originalText |-> <<>>,
   errorShown |-> FALSE, errorMessage |-> "",
   pending |-> <<>>, submitted |-> <<>>, event |-> "load"]

\* ------------------------------------------------------------ the state
VARIABLES reqs, table, api, ui

vars == <<reqs, table, api, ui>>

Init ==
  /\ reqs = [r \in Reqs |-> IdleReq]
  /\ table = SUPPORTED_LANGUAGES
  /\ api = NoApiResponses
  /\ ui = PageLoaded

\* -------------------------------------------------- steps of the handler

\* variant: emptiness tested without strip()
ValidationError_NoStrip(text, target, tbl) ==
  IF text = <<>> THEN "Text cannot be empty"
  ELSE IF target \notin Keys(tbl) THEN "Target language not supported"
  ELSE ""

\* variant: the target check is missing
ValidationError_NoTargetCheck(text, target, tbl) ==
  IF strip(text) = <<>> THEN "Text cannot be empty" ELSE ""

\* variant: the two checks in the other order
ValidationError_TargetFirst(text, target, tbl) ==
  IF target \notin Keys(tbl) THEN "Target language not supported"
  ELSE IF strip(text) = <<>> THEN "Text cannot be empty"
  ELSE ""

\* lines 208-212: the two checks, in this order; "" when both pass
ValidationError(text, target, tbl) ==
  IF strip(text) = <<>> THEN "Text cannot be empty"
  ELSE IF target \notin Keys(tbl) THEN "Target language not supported"
  ELSE ""

\* variant: the fallback keeps the length heuristic instead of 0.5
detect_language_with_confidence_FallbackScored(text, o) ==
  IF o.kind = "return"
  THEN [lang |-> o.lang, confidence |-> Min(95, 70 + Len(text)), logged |-> <<>>]
  ELSE [lang |-> "en", confidence |-> Min(95, 70 + Len(text)),
        logged |-> <<LogEntry("Language detection failed", o.msg)>>]

\* variant: the clamp at 0.95 is missing
detect_language_with_confidence_Unclamped(text, o) ==
  IF o.kind = "return"
  THEN [lang |-> o.lang, confidence |-> 70 + Len(text), logged |-> <<>>]
  ELSE [lang |-> "en", confidence |-> 50,
        logged |-> <<LogEntry("Language detection failed", o.msg)>>]

\* variant: the confidence is a percentage
detect_language_with_confidence_Percent(text, o) ==
  IF o.kind = "return"
  THEN [lang |-> o.lang, confidence |-> 100 * Min(95, 70 + Len(text)),
        logged |-> <<>>]
  ELSE [lang |-> "en", confidence |-> 100 * 50,
        logged |-> <<LogEntry("Language detection failed", o.msg)>>]

\* variant: the fallback language is a code of its own
detect_language_with_confidence_FallbackUnknown(text, o) ==
  IF o.kind = "return"
  THEN [lang |-> o.lang, confidence |-> Min(95, 70 + Len(text)), logged |-> <<>>]
  ELSE [lang |-> "unknown", confidence |-> 50,
        logged |-> <<LogEntry("Language detection failed", o.msg)>>]

\* variant: the length is taken of the trimmed text
detect_language_with_confidence_Trimmed(text, o) ==
  IF o.kind = "return"
  THEN [lang |-> o.lang, confidence |-> Min(95, 70 + Len(strip(text))),
        logged |-> <<>>]
  ELSE [lang |-> "en", confidence |-> 50,
        logged |-> <<LogEntry("Language detection failed", o.msg)>>]

\* lines 168-183: answer of the detector, or the fallback when it raises
detect_language_with_confidence(text, o) ==
  IF o.kind = "return"
  THEN [lang |-> o.lang, confidence |-> Min(95, 70 + Len(text)), logged |-> <<>>]
  ELSE [lang |-> "en", confidence |-> 50,
        logged |-> <<LogEntry("Language detection failed", o.msg)>>]

\* str.lower() on the codes in use
Lower(code) == IF code = "zh-TW" THEN "zh-tw" ELSE code

\* variant: the codes are compared without regard to case
SameLanguage_CaseFolded(detected, target) == Lower(detected) = Lower(target)

\* line 218: detected_lang == request.target_language
SameLanguage(detected, target) == detected = target

\* variant: the short-circuit echoes the trimmed text
ShortCircuitResponse_Trimmed(rq, lang, conf) ==
  TranslationResponse(rq.text, lang, conf, strip(rq.text), rq.target_language)

\* lines 219-225
ShortCircuitResponse(rq, lang, conf) ==
  TranslationResponse(rq.text, lang, conf, rq.text, rq.target_language)

\* variant: original and translated text swapped in the response
TranslateBody_Swapped(rq, o) ==
  IF o.kind = "raise" THEN Raised(o.msg)
  ELSE IF Falsy(o) THEN HTTPException(500, "Translation failed")
  ELSE Returned(TranslationResponse(o.value, rq.detected_lang, rq.confidence,
                                    rq.text, rq.target_language))

\* lines 229-241: body of the inner try, given the translator's outcome
TranslateBody(rq, o) ==
  IF o.kind = "raise" THEN Raised(o.msg)
  ELSE IF Falsy(o) THEN HTTPException(500, "Translation failed")
  ELSE Returned(TranslationResponse(rq.text, rq.detected_lang, rq.confidence,
                                    o.value, rq.target_language))

\* variant: no inner handler, the translator's exception reaches the outer one
InnerExcept_Missing(x) == x

\* variant: the translator's failure is answered as a client error
InnerExcept_ClientError(x) ==
  IF x.kind = "raise" THEN HTTPException(400, "Translation service error")
  ELSE x

\* variant: the exception text becomes the detail
InnerExcept_LeakMessage(x) ==
  IF x.kind = "raise" THEN HTTPException(500, x.msg) ELSE x

\* lines 243-245: except Exception of the inner try; HTTPException is a
\* subclass of Exception, so an HTTPException raised in the body is caught too
InnerExcept(x) ==
  IF x.kind = "raise" THEN HTTPException(500, "Translation service error")
  ELSE x

\* variant: the inner handler does not log
InnerLog_Missing(x) == <<>>

InnerLog(x) ==
  IF x.kind = "raise" THEN <<LogEntry("Translation error", x.msg)>> ELSE <<>>

\* variant: the outer except Exception is missing
OuterExcept_Reraise(x) == x

\* lines 247-251: outer handlers
OuterExcept(x) ==
  IF x.kind = "raise" /\ x.exc # "HTTPException"
  THEN HTTPException(500, "Internal server error")
  ELSE x

OuterLog(x) ==
  IF x.kind = "raise" /\ x.exc # "HTTPException"
  THEN <<LogEntry("Unexpected error", x.msg)>> ELSE <<>>

\* a request arrives; the server handles one request at a time (the handler
\* is a coroutine without await, its collaborator calls block the loop)
Receive(r) ==
  /\ \A q \in Reqs : reqs[q].pc = "idle"
  /\ \E text \in Texts, target \in TargetLanguages :
       reqs' = [reqs EXCEPT ![r] =
                  [IdleReq EXCEPT !.pc = "received", !.text = text,
                                  !.target_language = target]]
  /\ UNCHANGED <<table, api, ui>>

\* variant: the detector is called before the checks
Validate_AfterDetect(r) ==
  /\ reqs[r].pc = "received"
  /\ LET rq  == [reqs[r] EXCEPT !.calls = Append(@, DetectCall(reqs[r].text))]
         err == ValidationError(rq.text, rq.target_language, table)
         end == OuterExcept(HTTPException(400, err))
     IN  reqs' = [reqs EXCEPT ![r] =
                    IF err = "" THEN [rq EXCEPT !.pc = "detect"]
                    ELSE [rq EXCEPT !.pc = "done",
                                    !.response = HttpResponse(end)]]
  /\ UNCHANGED <<table, api, ui>>

\* lines 206-212
Validate(r) ==
  /\ reqs[r].pc = "received"
  /\ LET rq == reqs[r]
         err == ValidationError(rq.text, rq.target_language, table)
         end == OuterExcept(HTTPException(400, err))
     IN  reqs' = [reqs EXCEPT ![r] =
                    IF err = "" THEN [rq EXCEPT !.pc = "detect"]
                    ELSE [rq EXCEPT !.pc = "done",
                                    !.response = HttpResponse(end)]]
  /\ UNCHANGED <<table, api, ui>>

\* variant: the text to score is collected in a module-level buffer that
\* still holds the text of another request
Detect_SharedBuffer(r) ==
  /\ reqs[r].pc = "detect"
  /\ \E o \in DetectorOutcomes, q \in Reqs :
       LET rq  == reqs[r]
           buf == IF q = r THEN rq.text ELSE reqs[q].text \o rq.text
           d   == [detect_language_with_confidence(rq.text, o) EXCEPT
                     !.confidence =
                        detect_language_with_confidence(buf, o).confidence]
           rq1 == [rq EXCEPT !.detect_result = o.kind,
                             !.detected_lang = d.lang,
                             !.confidence = d.confidence,
                             !.calls = Append(@, DetectCall(rq.text)),
                             !.log = @ \o d.logged]
           end == OuterExcept(Returned(
                    ShortCircuitResponse(rq, d.lang, d.confidence)))
       IN  reqs' = [reqs EXCEPT ![r] =
                      IF SameLanguage(d.lang, rq.target_language)
                      THEN [rq1 EXCEPT !.pc = "done",
                                       !.response = HttpResponse(end)]
                      ELSE [rq1 EXCEPT !.pc = "translate"]]
  /\ UNCHANGED <<table, api, ui>>

\* variant: a detected code outside the table is rejected like a bad target
Detect_ValidatesDetected(r) ==
  /\ reqs[r].pc = "detect"
  /\ \E o \in DetectorOutcomes :
       LET rq  == reqs[r]
           d   == detect_language_with_confidence(rq.text, o)
           rq1 == [rq EXCEPT !.detect_result = o.kind,
                             !.detected_lang = d.lang,
                             !.confidence = d.confidence,
                             !.calls = Append(@, DetectCall(rq.text)),
                             !.log = @ \o d.logged]
           end == OuterExcept(Returned(
                    ShortCircuitResponse(rq, d.lang, d.confidence)))
           bad == OuterExcept(HTTPException(400, "Source language not supported"))
       IN  reqs' = [reqs EXCEPT ![r] =
                      IF d.lang \notin Keys(table)
                      THEN [rq1 EXCEPT !.pc = "done",
                                       !.response = HttpResponse(bad)]
                      ELSE IF SameLanguage(d.lang, rq.target_language)
                      THEN [rq1 EXCEPT !.pc = "done",
                                       !.response = HttpResponse(end)]
                      ELSE [rq1 EXCEPT !.pc = "translate"]]
  /\ UNCHANGED <<table, api, ui>>

\* lines 215-225
Detect(r) ==
  /\ reqs[r].pc = "detect"
  /\ \E o \in DetectorOutcomes :
       LET rq  == reqs[r]
           d   == detect_language_with_confidence(rq.text, o)
           rq1 == [rq EXCEPT !.detect_result = o.kind,
                             !.detected_lang = d.lang,
                             !.confidence = d.confidence,
                             !.calls = Append(@, DetectCall(rq.text)),
                             !.log = @ \o d.logged]
           end == OuterExcept(Returned(
                    ShortCircuitResponse(rq, d.lang, d.confidence)))
       IN  reqs' = [reqs EXCEPT ![r] =
                      IF SameLanguage(d.lang, rq.target_language)
                      THEN [rq1 EXCEPT !.pc = "done",
                                       !.response = HttpResponse(end)]
                      ELSE [rq1 EXCEPT !.pc = "translate"]]
  /\ UNCHANGED <<table, api, ui>>

\* variant: a raising translator is asked a second time
Translate_Retry(r) ==
  /\ reqs[r].pc = "translate"
  /\ \E o \in TranslatorOutcomes :
       LET rq    == reqs[r]
           call  == TranslateCall(rq.text, rq.detected_lang, rq.target_language)
           body  == TranslateBody(rq, o)
           inner == InnerExcept(body)
           end   == OuterExcept(inner)
       IN  reqs' = [reqs EXCEPT ![r] =
                      [rq EXCEPT !.pc = "done",
                                 !.translate_result = o,
                                 !.calls = IF o.kind = "raise"
                                           THEN @ \o <<call, call>>
                                           ELSE Append(@, call),
                                 !.log = @ \o InnerLog(body) \o OuterLog(inner),
                                 !.response = HttpResponse(end)]]
  /\ UNCHANGED <<table, api, ui>>

\* variant: the detected language is kept in a module-level variable that the
\* latest detection of any request overwrites
Translate_SharedDetected(r) ==
  /\ reqs[r].pc = "translate"
  /\ \E o \in TranslatorOutcomes, q \in Reqs :
       LET rq    == [reqs[r] EXCEPT !.detected_lang = reqs[q].detected_lang]
           body  == TranslateBody(rq, o)
           inner == InnerExcept(body)
           end   == OuterExcept(inner)
       IN  /\ reqs[q].detect_result # "pending"
           /\ reqs' = [reqs EXCEPT ![r] =
                         [rq EXCEPT !.pc = "done",
                                    !.translate_result = o,
                                    !.calls = Append(@,
                                       TranslateCall(rq.text, rq.detected_lang,
                                                     rq.target_language)),
                                    !.log = @ \o InnerLog(body) \o OuterLog(inner),
                                    !.response = HttpResponse(end)]]
  /\ UNCHANGED <<table, api, ui>>

\* variant: after a raising translator the handler waits for a retry that is
\* never scheduled
Translate_Blocked(r) ==
  /\ reqs[r].pc = "translate"
  /\ \E o \in TranslatorOutcomes :
       LET rq    == reqs[r]
           body  == TranslateBody(rq, o)
           inner == InnerExcept(body)
           end   == OuterExcept(inner)
       IN  reqs' = [reqs EXCEPT ![r] =
                      [rq EXCEPT !.pc = IF o.kind = "raise" THEN "blocked"
                                        ELSE "done",
                                 !.translate_result = o,
                                 !.calls = Append(@,
                                    TranslateCall(rq.text, rq.detected_lang,
                                                  rq.target_language)),
                                 !.log = @ \o InnerLog(body) \o OuterLog(inner),
                                 !.response = IF o.kind = "raise" THEN NoResponse
                                              ELSE HttpResponse(end)]]
  /\ UNCHANGED <<table, api, ui>>

\* lines 227-251
Translate(r) ==
  /\ reqs[r].pc = "translate"
  /\ \E o \in TranslatorOutcomes :
       LET rq    == reqs[r]
           body  == TranslateBody(rq, o)
           inner == InnerExcept(body)
           end   == OuterExcept(inner)
       IN  reqs' = [reqs EXCEPT ![r] =
                      [rq EXCEPT !.pc = "done",
                                 !.translate_result = o,
                                 !.calls = Append(@,
                                    TranslateCall(rq.text, rq.detected_lang,
                                                  rq.target_language)),
                                 !.log = @ \o InnerLog(body) \o OuterLog(inner),
                                 !.response = HttpResponse(end)]]
  /\ UNCHANGED <<table, api, ui>>

\* the response has been delivered; the slot is free again
Finish(r) ==
  /\ reqs[r].pc = "done"
  /\ reqs' = [reqs EXCEPT ![r] = IdleReq]
  /\ UNCHANGED <<table, api, ui>>

\* An exception that is not the collaborators' can surface at any statement
\* of the handler.  Three places differ in the handlers around them.

\* lines 208-212: a statement of the validation raises
FaultInValidation(r) ==
  /\ reqs[r].pc = "received"
  /\ \E m \in UnexpectedMessages :
       LET rq  == reqs[r]
           exc == Raised(m)
           end == OuterExcept(exc)
       IN  reqs' = [reqs EXCEPT ![r] =
                      [rq EXCEPT !.pc = "done", !.fault = "validate",
                                 !.log = @ \o OuterLog(exc),
                                 !.response = HttpResponse(end)]]
  /\ UNCHANGED <<table, api, ui>>

\* lines 215-225: detection answers the target language, then building the
\* short-circuit response raises
FaultInShortCircuit(r) ==
  /\ reqs[r].pc = "detect"
  /\ \E o \in DetectorOutcomes, m \in UnexpectedMessages :
       LET rq  == reqs[r]
           d   == detect_language_with_confidence(rq.text, o)
           exc == Raised(m)
           end == OuterExcept(exc)
       IN  /\ SameLanguage(d.lang, rq.target_language)
           /\ reqs' = [reqs EXCEPT ![r] =
                         [rq EXCEPT !.pc = "done", !.fault = "shortcircuit",
                                    !.detect_result = o.kind,
                                    !.detected_lang = d.lang,
                                    !.confidence = d.confidence,
                                    !.calls = Append(@, DetectCall(rq.text)),
                                    !.log = @ \o d.logged \o OuterLog(exc),
                                    !.response = HttpResponse(end)]]
  /\ UNCHANGED <<table, api, ui>>

\* lines 229-245: the translator returns a truthy value, then building the
\* response at line 235 raises, inside the inner try
FaultInResponse(r) ==
  /\ reqs[r].pc = "translate"
  /\ \E o \in TranslatorOutcomes, m \in UnexpectedMessages :
       LET rq    == reqs[r]
           body  == Raised(m)
           inner == InnerExcept(body)
           end   == OuterExcept(inner)
       IN  /\ o.kind = "return" /\ ~Falsy(o)
           /\ reqs' = [reqs EXCEPT ![r] =
                         [rq EXCEPT !.pc = "done", !.fault = "response",
                                    !.translate_result = o,
                                    !.calls = Append(@,
                                       TranslateCall(rq.text, rq.detected_lang,
                                                     rq.target_language)),
                                    !.log = @ \o InnerLog(body) \o OuterLog(inner),
                                    !.response = HttpResponse(end)]]
  /\ UNCHANGED <<table, api, ui>>

\* variant: the list is built in reverse order
get_supported_languages_Reversed(tbl) ==
  [i \in 1..Len(tbl) |->
     LanguageInfo(tbl[Len(tbl) + 1 - i].code, tbl[Len(tbl) + 1 - i].name,
                  tbl[Len(tbl) + 1 - i].native_name)]

\* lines 191-201: one LanguageInfo per entry, in iteration order
get_supported_languages(tbl) ==
  [i \in 1..Len(tbl) |->
     LanguageInfo(tbl[i].code, tbl[i].name, tbl[i].native_name)]

\* variant: the entries are popped from the mapping while listing
GetLanguages_Consuming ==
  /\ api' = [api EXCEPT !.languages =
               [status |-> 200, body |-> get_supported_languages(table)]]
  /\ table' = <<>>
  /\ UNCHANGED <<reqs, ui>>

\* GET /api/languages
GetLanguages ==
  /\ api' = [api EXCEPT !.languages =
               [status |-> 200, body |-> get_supported_languages(table)]]
  /\ UNCHANGED <<reqs, table, ui>>

\* variant: the answer depends on the failures of translate requests
health_check_Degraded ==
  [status |-> IF \E r \in Reqs : reqs[r].response.status = 500
              THEN 503 ELSE 200,
   body |-> [status |-> IF \E r \in Reqs : reqs[r].response.status = 500
                        THEN "degraded" ELSE "healthy",
             service |-> "translation-engine"]]

\* lines 253-256
health_check ==
  [status |-> 200,
   body |-> [status |-> "healthy", service |-> "translation-engine"]]

\* GET /api/health
HealthCheck ==
  /\ api' = [api EXCEPT !.health = health_check]
  /\ UNCHANGED <<reqs, table, ui>>

\* ------------------------------------- front end of app/main_vercel.py
\* main_vercel.py lines 764-768
showError(u, message) ==
  [u EXCEPT !.errorMessage = message, !.errorShown = TRUE]

\* main_vercel.py lines 752-762
setLoading(u, loading) ==
  [u EXCEPT !.loading = loading, !.btnDisabled = loading]

\* main_vercel.py lines 725-742
displayResults(u, result) ==
  [u EXCEPT !.originalText = result.original_text, !.resultsShown = TRUE]

\* main_vercel.py lines 676-706: translate() up to its await of fetch
translate(u) ==
  LET text == strip(u.inputText)
  IN  IF text = <<>>
      THEN [showError(u, "Please enter some text to translate")
              EXCEPT !.event = "rejected"]
      ELSE IF u.targetValue = ""
      THEN [showError(u, "Please select a target language")
              EXCEPT !.event = "rejected"]
      ELSE [setLoading(u, TRUE) EXCEPT
              !.errorShown = FALSE, !.resultsShown = FALSE,
              !.pending = Append(@, [text |-> text, target |-> u.targetValue]),
              !.submitted = text, !.event = "sent"]

\* the call would send a request
Sends(u) == strip(u.inputText) # <<>> /\ u.targetValue # ""

\* main_vercel.py lines 708-722: translate() after its fetch has settled
translateSettled(u, p, o) ==
  LET shown ==
        IF o.kind = "ok"
        THEN displayResults(u, [original_text |-> p.text])
        ELSE IF o.kind = "http_error"
        THEN showError(u, IF o.detail # "" THEN o.detail
                          ELSE "Translation failed")
        ELSE showError(u, o.detail)
  IN  [setLoading(shown, FALSE) EXCEPT !.event = "completed"]

RemoveAt(seq, i) == SubSeq(seq, 1, i - 1) \o SubSeq(seq, i + 1, Len(seq))

\* lines 632-651: the fetch of /api/languages settles
UILoadLanguages ==
  /\ ui.options = "loading"
  /\ \/ ui' = [ui EXCEPT !.options = "loaded", !.event = "other"]
     \/ ui' = [showError(ui, "Failed to load supported languages")
                 EXCEPT !.options = "failed", !.event = "other"]
  /\ UNCHANGED <<reqs, table, api>>

\* the user edits the text area
UIType ==
  /\ \E t \in UITexts :
       /\ t # ui.inputText
       /\ ui' = [ui EXCEPT !.inputText = t, !.event = "other"]
  /\ UNCHANGED <<reqs, table, api>>

\* the user picks an option of the selector
UISelect ==
  /\ \E c \in UITargets :
       /\ c # ui.targetValue
       /\ c # "" => ui.options = "loaded"
       /\ ui' = [ui EXCEPT !.targetValue = c, !.event = "other"]
  /\ UNCHANGED <<reqs, table, api>>

\* line 654: click on the translate button; a disabled button gets no click
UIClick ==
  /\ ~ui.btnDisabled
  /\ Sends(ui) => Len(ui.pending) < MaxInFlight
  /\ ui' = translate(ui)
  /\ UNCHANGED <<reqs, table, api>>

\* lines 656-660: Ctrl+Enter in the text area
UICtrlEnter ==
  /\ Sends(ui) => Len(ui.pending) < MaxInFlight
  /\ ui' = translate(ui)
  /\ UNCHANGED <<reqs, table, api>>

\* a pending fetch settles, in any order
UIFetchSettled ==
  /\ \E i \in 1..Len(ui.pending), o \in FetchOutcomes :
       ui' = translateSettled([ui EXCEPT !.pending = RemoveAt(@, i)],
                              ui.pending[i], o)
  /\ UNCHANGED <<reqs, table, api>>

NextUI ==
  \/ UILoadLanguages
  \/ UIType
  \/ UISelect
  \/ UIClick
  \/ UICtrlEnter
  \/ UIFetchSettled

SpecUI == Init /\ [][NextUI]_vars

Next ==
  \/ \E r \in Reqs :
       \/ Receive(r)
       \/ Validate(r)
       \/ Detect(r)
       \/ Translate(r)
       \/ Finish(r)
  \/ GetLanguages
  \/ HealthCheck

Spec == Init /\ [][Next]_vars

\* the same server, with unexpected exceptions
NextFault ==
  \/ Next
  \/ \E r \in Reqs :
       \/ FaultInValidation(r)
       \/ FaultInShortCircuit(r)
       \/ FaultInResponse(r)

SpecFault == Init /\ [][NextFault]_vars

\* requests of the concurrent server: a blank text and a padded word, a key
\* of the table and an unknown code
ConcTexts == {<<" ">>, <<" ", "a">>}

ConcTargets == {"fr", "xx"}

\* a request arrives while others are being handled (several workers, or a
\* handler that yields at its collaborator calls)
ReceiveConcurrent(r) ==
  /\ reqs[r].pc = "idle"
  /\ \E text \in ConcTexts, target \in ConcTargets :
       reqs' = [reqs EXCEPT ![r] =
                  [IdleReq EXCEPT !.pc = "received", !.text = text,
                                  !.target_language = target]]
  /\ UNCHANGED <<table, api, ui>>

NextConc ==
  \/ \E r \in Reqs :
       \/ ReceiveConcurrent(r)
       \/ Validate(r)
       \/ Detect(r)
       \/ Translate(r)
       \/ Finish(r)
  \/ GetLanguages
  \/ HealthCheck

SpecConc == Init /\ [][NextConc]_vars

\* concurrent translate requests whose handlers keep running: a started
\* handler takes its next step, and every collaborator call returns or raises
NextLive ==
  \E r \in Reqs :
    \/ ReceiveConcurrent(r)
    \/ Validate(r)
    \/ Detect(r)
    \/ Translate(r)
    \/ Finish(r)

SpecLive ==
  /\ Init
  /\ [][NextLive]_vars
  /\ \A r \in Reqs :
       /\ WF_vars(Validate(r))
       /\ WF_vars(Detect(r))
       /\ WF_vars(Translate(r))

\* lines 203-251 run from entry to exit without interruption, given the
\* answers of the two collaborators
translate_text(text, target, det, tr) ==
  LET err == ValidationError(text, target, SUPPORTED_LANGUAGES)
      d   == detect_language_with_confidence(text, det)
      rq  == [IdleReq EXCEPT !.text = text, !.target_language = target,
                             !.detected_lang = d.lang,
                             !.confidence = d.confidence]
  IN  IF err # "" THEN HttpResponse(OuterExcept(HTTPException(400, err)))
      ELSE IF SameLanguage(d.lang, target)
      THEN HttpResponse(OuterExcept(Returned(
             ShortCircuitResponse(rq, d.lang, d.confidence))))
      ELSE HttpResponse(OuterExcept(InnerExcept(TranslateBody(rq, tr))))

\* ---------------------------------------------------------------- claims
Done(r) == reqs[r].pc = "done"

TextEmpty(rq) == strip(rq.text) = <<>>

TargetKnown(rq) == rq.target_language \in Keys(table)

TranslatorCalls(rq) == {i \in DOMAIN rq.calls : rq.calls[i].svc = "translate"}

DetectorCalls(rq) == {i \in DOMAIN rq.calls : rq.calls[i].svc = "detect"}

IsError(rq, status, detail) ==
  rq.response.status = status /\ rq.response.detail = detail

\* C1: when the translator returns an empty or falsy result without raising,
\* the request fails with 500 "Translation failed", not with
\* "Translation service error".
C1_EmptyTranslationFails ==
  \A r \in Reqs :
    (Done(r) /\ Falsy(reqs[r].translate_result))
      => IsError(reqs[r], 500, "Translation failed")

\* C2: a request whose text is empty or only whitespace fails with 400
\* "Text cannot be empty", whatever the target language.
C2_EmptyTextRejected ==
  \A r \in Reqs :
    (Done(r) /\ TextEmpty(reqs[r]))
      => IsError(reqs[r], 400, "Text cannot be empty")

C2_Witness ==
  \E r \in Reqs :
    /\ Done(r)
    /\ reqs[r].text = <<" ">>
    /\ reqs[r].target_language = "fr"
    /\ IsError(reqs[r], 400, "Text cannot be empty")

\* C3: a request with non-empty trimmed text and a target that is no key of
\* the language table fails with 400 "Target language not supported".
C3_UnknownTargetRejected ==
  \A r \in Reqs :
    (Done(r) /\ ~TextEmpty(reqs[r]) /\ ~TargetKnown(reqs[r]))
      => IsError(reqs[r], 400, "Target language not supported")

C3_Witness ==
  \E r \in Reqs :
    /\ Done(r)
    /\ reqs[r].text = <<"a">>
    /\ reqs[r].target_language = "xx"
    /\ IsError(reqs[r], 400, "Target language not supported")

\* C4: the empty-text check comes first: whitespace-only text together with
\* an unsupported target is answered "Text cannot be empty", never
\* "Target language not supported".
C4_EmptyTextCheckedFirst ==
  \A r \in Reqs :
    (Done(r) /\ TextEmpty(reqs[r]) /\ ~TargetKnown(reqs[r]))
      => /\ reqs[r].response.detail = "Text cannot be empty"
         /\ reqs[r].response.detail # "Target language not supported"

C4_Witness ==
  \E r \in Reqs :
    /\ Done(r)
    /\ reqs[r].text = <<" ", " ">>
    /\ reqs[r].target_language = "xx"
    /\ reqs[r].response.detail = "Text cannot be empty"

\* C5: both checks precede every external call: a request answered 400 has
\* called neither collaborator, and whenever a collaborator has been called
\* the text is non-empty after trimming and the target is a key of the table.
C5_ValidationBeforeCalls ==
  \A r \in Reqs :
    /\ reqs[r].response.status = 400 => reqs[r].calls = <<>>
    /\ reqs[r].calls # <<>> => (~TextEmpty(reqs[r]) /\ TargetKnown(reqs[r]))
    /\ reqs[r].pc \in {"idle", "received"} => reqs[r].calls = <<>>

C5_Witness ==
  \E r \in Reqs :
    /\ Done(r)
    /\ reqs[r].response.status = 400
    /\ ~TextEmpty(reqs[r])
    /\ reqs[r].calls = <<>>

\* C6: when the detector returns the target language of a valid request, the
\* request succeeds with translated_text equal to the text as sent, and the
\* translator is not called.
C6_ShortCircuit ==
  \A r \in Reqs :
    (/\ Done(r)
     /\ ~TextEmpty(reqs[r]) /\ TargetKnown(reqs[r])
     /\ reqs[r].detect_result = "return"
     /\ reqs[r].detected_lang = reqs[r].target_language)
      => /\ reqs[r].response.status = 200
         /\ reqs[r].response.body.translated_text = reqs[r].text
         /\ TranslatorCalls(reqs[r]) = {}

C6_Witness ==
  \E r \in Reqs :
    /\ Done(r)
    /\ reqs[r].text = <<" ", "a", " ">>
    /\ reqs[r].target_language = "fr"
    /\ reqs[r].detect_result = "return"
    /\ reqs[r].detected_lang = "fr"
    /\ reqs[r].response.status = 200
    /\ reqs[r].response.body.translated_text = <<" ", "a", " ">>
    /\ TranslatorCalls(reqs[r]) = {}

\* C7: a raising detector does not fail the request: it continues with
\* detected language "en" and confidence 0.5; if the target is not "en" the
\* translator is called with source "en" and the requested target, and a
\* non-empty translation makes the request succeed.
C7_DetectorFallback ==
  \A r \in Reqs :
    reqs[r].detect_result = "raise"
      => /\ reqs[r].detected_lang = "en"
         /\ reqs[r].confidence = 50
         /\ reqs[r].pc \in {"translate", "done"}
         /\ (reqs[r].target_language # "en")
              => /\ reqs[r].pc = "translate" \/ reqs[r].translate_result.kind # "pending"
                 /\ \A i \in TranslatorCalls(reqs[r]) :
                      /\ reqs[r].calls[i].source = "en"
                      /\ reqs[r].calls[i].target = reqs[r].target_language
                 /\ Done(r) => TranslatorCalls(reqs[r]) # {}
         /\ (Done(r) /\ reqs[r].translate_result.kind = "return"
                     /\ reqs[r].translate_result.value # <<>>)
              => /\ reqs[r].response.status = 200
                 /\ reqs[r].response.body.detected_language = "en"
                 /\ reqs[r].response.body.confidence_level = 50

C7_Witness ==
  \E r \in Reqs :
    /\ Done(r)
    /\ reqs[r].detect_result = "raise"
    /\ reqs[r].target_language = "fr"
    /\ reqs[r].translate_result.kind = "return"
    /\ reqs[r].translate_result.value # <<>>
    /\ reqs[r].calls[2] = TranslateCall(reqs[r].text, "en", "fr")
    /\ reqs[r].response.status = 200
    /\ reqs[r].response.body.confidence_level = 50

\* C8: when the translator raises, the request fails with 500
\* "Translation service error".
C8_TranslatorRaises ==
  \A r \in Reqs :
    (Done(r) /\ reqs[r].translate_result.kind = "raise")
      => IsError(reqs[r], 500, "Translation service error")

C8_Witness ==
  \E r \in Reqs :
    /\ Done(r)
    /\ reqs[r].translate_result.kind = "raise"
    /\ reqs[r].detected_lang # reqs[r].target_language
    /\ IsError(reqs[r], 500, "Translation service error")

\* C9: when the translator returns a non-empty string, the response is 200
\* and carries the translator's output, the request text, the detected
\* language and confidence of the detection step, and the request's target.
C9_TranslatedResponse ==
  \A r \in Reqs :
    (/\ Done(r)
     /\ reqs[r].translate_result.kind = "return"
     /\ reqs[r].translate_result.value # <<>>)
      => /\ reqs[r].response.status = 200
         /\ reqs[r].response.body.translated_text = reqs[r].translate_result.value
         /\ reqs[r].response.body.original_text = reqs[r].text
         /\ reqs[r].response.body.detected_language = reqs[r].detected_lang
         /\ reqs[r].response.body.confidence_level = reqs[r].confidence
         /\ reqs[r].response.body.target_language = reqs[r].target_language

C9_Witness ==
  \E r \in Reqs :
    /\ Done(r)
    /\ reqs[r].text = Rep("a", 17)
    /\ reqs[r].target_language = "en"
    /\ reqs[r].detect_result = "return"
    /\ reqs[r].response =
         [status |-> 200, detail |-> "",
          body |-> [original_text |-> Rep("a", 17), detected_language |-> "fr",
                    confidence_level |-> 87, translated_text |-> <<"x">>,
                    target_language |-> "en"]]

\* C10: whenever the detector succeeds, the confidence is
\* min(0.95, 0.7 + 0.01 * n) with n the length of the text as sent, leading
\* and trailing whitespace included, whatever language was detected.
C10_ConfidenceFormula ==
  \A r \in Reqs :
    reqs[r].detect_result = "return"
      => /\ reqs[r].confidence = Min(95, 70 + Len(reqs[r].text))
         /\ reqs[r].response.status = 200
              => reqs[r].response.body.confidence_level
                   = Min(95, 70 + Len(reqs[r].text))

C10_Witness ==
  \E r \in Reqs :
    /\ Done(r)
    /\ reqs[r].text = <<" ", "a", " ">>
    /\ reqs[r].detect_result = "return"
    /\ reqs[r].detected_lang = "zh-tw"
    /\ reqs[r].response.status = 200
    /\ reqs[r].response.body.confidence_level = 73

\* C11: on detector success the confidence lies in [0.7, 0.95], does not
\* decrease when the text gets longer, is exactly 0.95 from 25 characters on
\* and strictly below 0.95 for shorter texts.
C11_ConfidenceRange ==
  \A r \in Reqs :
    reqs[r].detect_result = "return"
      => /\ 70 <= reqs[r].confidence /\ reqs[r].confidence <= 95
         /\ Len(reqs[r].text) >= 25 => reqs[r].confidence = 95
         /\ Len(reqs[r].text) < 25 => reqs[r].confidence < 95
         /\ \A t \in Texts :
              Len(t) <= Len(reqs[r].text)
                => detect_language_with_confidence(
                     t, [kind |-> "return", lang |-> reqs[r].detected_lang,
                         msg |-> ""]
                   ).confidence <= reqs[r].confidence

C11_Witness ==
  \E r \in Reqs :
    /\ Done(r)
    /\ reqs[r].text = Rep("a", 25)
    /\ reqs[r].detect_result = "return"
    /\ reqs[r].response.status = 200
    /\ reqs[r].response.body.confidence_level = 95

C14_StatusByFailureKind ==
  \A r \in Reqs :
    Done(r)
      => /\ reqs[r].response.status \in {200, 400, 500}
         /\ reqs[r].response.status = 400
              <=> (reqs[r].fault = "" /\ (TextEmpty(reqs[r]) \/ ~TargetKnown(reqs[r])))
         /\ (\/ reqs[r].detect_result = "raise"
             \/ reqs[r].translate_result.kind = "raise"
             \/ Falsy(reqs[r].translate_result))
              => reqs[r].response.status # 400
         /\ (reqs[r].translate_result.kind = "raise"
               \/ Falsy(reqs[r].translate_result) \/ reqs[r].fault # "")
              => reqs[r].response.status = 500

C14_Witness ==
  \E r \in Reqs :
    /\ Done(r)
    /\ reqs[r].translate_result.kind = "raise"
    /\ reqs[r].response.status = 500

FixedDetails ==
  {"Text cannot be empty", "Target language not supported",
   "Translation service error", "Translation failed", "Internal server error"}

\* C15: the detail of every error response is one of the five fixed strings
\* and is never the text of an exception raised by the detector, by the
\* translator or anywhere else.
C15_NoInternalTextExposed ==
  \A r \in Reqs :
    (Done(r) /\ reqs[r].response.status # 200)
      => /\ reqs[r].response.detail \in FixedDetails
         /\ reqs[r].response.detail \notin
              DetectorMessages \cup TranslatorMessages \cup UnexpectedMessages

C15_Witness ==
  \E r \in Reqs :
    /\ Done(r)
    /\ reqs[r].translate_result.kind = "raise"
    /\ reqs[r].translate_result.msg = "Request exception"
    /\ reqs[r].response.detail = "Translation service error"

\* C16 as stated: every request that ends in an error response (400 or 500)
\* has a log entry for that failure.
C16_EveryFailureLogged ==
  \A r \in Reqs :
    (Done(r) /\ reqs[r].response.status \in {400, 500})
      => reqs[r].log # <<>>

\* C16 amended: every request that ends in a 500 response has, as its last
\* log entry, the entry of that failure ("Translation error" for
\* "Translation service error", "Unexpected error" for
\* "Internal server error"); a request rejected with 400 logs nothing.
C16_ServerFailureLogged ==
  \A r \in Reqs :
    Done(r)
      => /\ reqs[r].response.status = 500
              => /\ reqs[r].log # <<>>
                 /\ reqs[r].log[Len(reqs[r].log)].line
                      = IF reqs[r].response.detail = "Internal server error"
                        THEN "Unexpected error" ELSE "Translation error"
         /\ reqs[r].response.status = 400 => reqs[r].log = <<>>

C16_Witness ==
  \E r \in Reqs :
    /\ Done(r)
    /\ reqs[r].detect_result = "return"
    /\ reqs[r].translate_result.kind = "raise"
    /\ reqs[r].response.status = 500
    /\ reqs[r].log = <<LogEntry("Translation error", "Request exception")>>

\* the detector's answer to request rq, as far as the response depends on it
DetectorAnswer(rq) ==
  IF rq.detect_result = "return"
  THEN [kind |-> "return", lang |-> rq.detected_lang, msg |-> ""]
  ELSE [kind |-> "raise", lang |-> "", msg |-> ""]

\* C17: under any interleaving of the steps of concurrent requests, the
\* outcome of each request is the one it has when run alone with the same
\* collaborator answers.
C17_IndependentRequests ==
  \A r \in Reqs :
    Done(r)
      => reqs[r].response
           = translate_text(reqs[r].text, reqs[r].target_language,
                            DetectorAnswer(reqs[r]), reqs[r].translate_result)

C17_Witness ==
  \E r \in Reqs, q \in Reqs :
    /\ r # q
    /\ Done(r) /\ Done(q)
    /\ reqs[r].detected_lang = "fr" /\ reqs[q].detected_lang = "zh-tw"
    /\ reqs[r].response.status = 200
    /\ reqs[r].response.body.detected_language = "fr"
    /\ reqs[q].response.status = 500

\* C18: the language table is never mutated: in every state reached by
\* health, languages and translate requests in any interleaving it is the
\* table of initialization.
C18_TableUnchanged == table = SUPPORTED_LANGUAGES

C18_Witness ==
  /\ api.languages.status = 200
  /\ api.health.status = 200
  /\ \E r \in Reqs, q \in Reqs :
       /\ Done(r) /\ reqs[r].response.status = 200
       /\ Done(q) /\ reqs[q].response.status = 400
  /\ table = SUPPORTED_LANGUAGES

\* C19: GET /api/languages answers 200 with one element per entry of the
\* table, in the table's insertion order, each with the code, name and
\* native_name of its entry, and no code twice.
C19_LanguagesList ==
  api.languages.status # 0
    => /\ api.languages.status = 200
       /\ Len(api.languages.body) = Len(SUPPORTED_LANGUAGES)
       /\ \A i \in 1..Len(api.languages.body) :
            /\ api.languages.body[i].code = SUPPORTED_LANGUAGES[i].code
            /\ api.languages.body[i].code \in Keys(table)
            /\ api.languages.body[i].name = SUPPORTED_LANGUAGES[i].name
            /\ api.languages.body[i].native_name
                 = SUPPORTED_LANGUAGES[i].native_name
       /\ Cardinality({api.languages.body[i].code :
                         i \in 1..Len(api.languages.body)})
            = Len(api.languages.body)

C19_Witness ==
  /\ api.languages.status = 200
  /\ Len(api.languages.body) = 109
  /\ api.languages.body[1].code = "af"
  /\ api.languages.body[2].code = "sq"
  /\ api.languages.body[109].code = "zu"
  /\ \E r \in Reqs : Done(r)

\* C20: GET /api/health answers 200 with {status: "healthy",
\* service: "translation-engine"} whatever translate requests came before or
\* are in flight and whether or not the collaborators fail.
C20_HealthAlwaysHealthy ==
  api.health.status # 0
    => /\ api.health.status = 200
       /\ api.health.body.status = "healthy"
       /\ api.health.body.service = "translation-engine"

C20_Witness ==
  /\ api.health.status = 200
  /\ api.health.body.status = "healthy"
  /\ \E r \in Reqs :
       /\ Done(r)
       /\ reqs[r].detect_result = "raise"
       /\ reqs[r].translate_result.kind = "raise"
       /\ reqs[r].response.status = 500

\* C21: every TranslationResponse returned by POST /api/translate, on every
\* path (detector success or fallback, short-circuit or translation), has
\* its confidence_level within [0, 1].
C21_ConfidenceInUnitInterval ==
  \A r \in Reqs :
    (Done(r) /\ reqs[r].response.status = 200)
      => /\ 0 <= reqs[r].response.body.confidence_level
         /\ reqs[r].response.body.confidence_level <= 100

C21_Witness ==
  \E r \in Reqs :
    /\ Done(r)
    /\ reqs[r].detect_result = "raise"
    /\ reqs[r].translate_result.kind = "return"
    /\ reqs[r].response.status = 200
    /\ reqs[r].response.body.confidence_level = 50

\* C22: the pipeline is stateless: two translate requests with the same text
\* and target that get the same answers from the detector and the
\* translator have the same outcome (status, detail and the five response
\* fields), whatever was processed before or beside them.
C22_Stateless ==
  \A r \in Reqs, q \in Reqs :
    (/\ Done(r) /\ Done(q)
     /\ reqs[r].text = reqs[q].text
     /\ reqs[r].target_language = reqs[q].target_language
     /\ DetectorAnswer(reqs[r]) = DetectorAnswer(reqs[q])
     /\ reqs[r].translate_result = reqs[q].translate_result)
      => reqs[r].response = reqs[q].response

C22_Witness ==
  \E r \in Reqs, q \in Reqs :
    /\ r # q
    /\ Done(r) /\ Done(q)
    /\ reqs[r].text = <<" ", "a">> /\ reqs[q].text = <<" ", "a">>
    /\ reqs[r].target_language = "fr" /\ reqs[q].target_language = "fr"
    /\ reqs[r].detected_lang = "en" /\ reqs[q].detected_lang = "en"
    /\ reqs[r].detect_result = "return" /\ reqs[q].detect_result = "return"
    /\ reqs[r].translate_result.value = <<"x">>
    /\ reqs[q].translate_result.value = <<"x">>
    /\ reqs[r].response.status = 200
    /\ reqs[r].response = reqs[q].response

\* a finished request has a 200 response with a body, or an error response
\* with a detail, and not both; an unfinished one has neither
ExactlyOneOutcome(r) ==
  IF Done(r)
  THEN \/ /\ reqs[r].response.status = 200
          /\ reqs[r].response.detail = ""
          /\ reqs[r].response.body # NoBody
       \/ /\ reqs[r].response.status \in {400, 500}
          /\ reqs[r].response.detail # ""
          /\ reqs[r].response.body = NoBody
  ELSE reqs[r].response = NoResponse

\* C23: provided every collaborator call returns or raises, every received
\* translate request eventually ends, with exactly one outcome: one 200
\* TranslationResponse or one error response, never both or neither.
C23_RunsToCompletion ==
  /\ \A r \in Reqs : (reqs[r].pc = "received") ~> (reqs[r].pc = "done")
  /\ [](\A r \in Reqs : ExactlyOneOutcome(r))

C23_Witness ==
  \E r \in Reqs, q \in Reqs :
    /\ Done(r)
    /\ reqs[r].translate_result.kind = "raise"
    /\ reqs[r].response.status = 500
    /\ Done(q)
    /\ reqs[q].response.status = 200
    /\ reqs[q].response.body.translated_text = <<"x">>

\* C24: the collaborators get the request data unmodified: the detector is
\* called with the text as sent, the translator with that same text, with
\* the detected language ("en" after a detector failure) as source and the
\* request's target_language as target.
C24_CollaboratorsGetRawData ==
  \A r \in Reqs :
    \A i \in DOMAIN reqs[r].calls :
      /\ reqs[r].calls[i].text = reqs[r].text
      /\ reqs[r].calls[i].svc = "translate"
           => /\ reqs[r].calls[i].source = reqs[r].detected_lang
              /\ reqs[r].detect_result = "raise"
                   => reqs[r].calls[i].source = "en"
              /\ reqs[r].calls[i].target = reqs[r].target_language

C24_Witness ==
  \E r \in Reqs :
    /\ Done(r)
    /\ reqs[r].text = <<" ", "a", " ">>
    /\ reqs[r].calls =
         <<DetectCall(<<" ", "a", " ">>),
           TranslateCall(<<" ", "a", " ">>, "fr", "en")>>

\* C25: the short-circuit compares the codes exactly: for a valid request
\* the translator is skipped if and only if the detected code equals
\* target_language character for character; codes that differ by case
\* ("zh-tw", "zh-TW") or by a region subtag ("zh-tw", "zh") are translated.
C25_ExactCodeMatch ==
  \A r \in Reqs :
    (Done(r) /\ ~TextEmpty(reqs[r]) /\ TargetKnown(reqs[r]))
      => /\ TranslatorCalls(reqs[r]) = {}
              <=> reqs[r].detected_lang = reqs[r].target_language
         /\ (reqs[r].detected_lang = "zh-tw"
               /\ reqs[r].target_language \in {"zh-TW", "zh"})
              => TranslatorCalls(reqs[r]) # {}

C25_Witness ==
  \E r \in Reqs :
    /\ Done(r)
    /\ reqs[r].detected_lang = "zh-tw"
    /\ reqs[r].target_language = "zh-TW"
    /\ reqs[r].calls[2] = TranslateCall(reqs[r].text, "zh-tw", "zh-TW")
    /\ reqs[r].response.status = 200

\* C26: when the detector raises and the target is "en", the fallback "en"
\* short-circuits: 200 with detected_language "en", confidence 0.5 (not the
\* length formula), translated_text equal to the text, no translator call.
C26_FallbackShortCircuit ==
  \A r \in Reqs :
    (/\ Done(r)
     /\ reqs[r].detect_result = "raise"
     /\ reqs[r].target_language = "en")
      => /\ reqs[r].response.status = 200
         /\ reqs[r].response.body.detected_language = "en"
         /\ reqs[r].response.body.confidence_level = 50
         /\ reqs[r].response.body.translated_text = reqs[r].text
         /\ reqs[r].response.body.original_text = reqs[r].text
         /\ TranslatorCalls(reqs[r]) = {}

C26_Witness ==
  \E r \in Reqs :
    /\ Done(r)
    /\ reqs[r].detect_result = "raise"
    /\ reqs[r].target_language = "en"
    /\ reqs[r].text = Rep("a", 26)
    /\ reqs[r].response.status = 200
    /\ reqs[r].response.body.confidence_level = 50
    /\ reqs[r].calls = <<DetectCall(Rep("a", 26))>>

\* C27: the detected language is not checked against the table: when the
\* detector returns a code that is no key, the request is not rejected with
\* 400; the translator is called with that code as source, and on success
\* the response carries that code as detected_language.
C27_DetectedNotValidated ==
  \A r \in Reqs :
    (/\ Done(r)
     /\ reqs[r].detect_result = "return"
     /\ reqs[r].detected_lang \notin Keys(table))
      => /\ reqs[r].response.status # 400
         /\ \E i \in TranslatorCalls(reqs[r]) :
              reqs[r].calls[i].source = reqs[r].detected_lang
         /\ (reqs[r].translate_result.kind = "return"
               /\ reqs[r].translate_result.value # <<>>)
              => /\ reqs[r].response.status = 200
                 /\ reqs[r].response.body.detected_language
                      = reqs[r].detected_lang

C27_Witness ==
  \E r \in Reqs :
    /\ Done(r)
    /\ reqs[r].detected_lang = "zh-tw"
    /\ reqs[r].target_language = "fr"
    /\ reqs[r].response.status = 200
    /\ reqs[r].response.body.detected_language = "zh-tw"
    /\ reqs[r].response.body.translated_text = <<"x">>

\* ------------------------------------------- app/main_vercel.py
\* The serverless entry point carries its own copy of the table and of the
\* handlers; they are written out here from that file.
vercel_SUPPORTED_LANGUAGES ==
  <<
    [code |-> "af", name |-> "Afrikaans",
     native_name |-> "Afrikaans"],
    [code |-> "sq", name |-> "Albanian",
     native_name |-> "Shqip"],
    [code |-> "am", name |-> "Amharic",
     native_name |-> "\\u12a0\\u121b\\u122d\\u129b"],
    [code |-> "ar", name |-> "Arabic",
     native_name |-> "\\u0627\\u0644\\u0639\\u0631\\u0628\\u064a\\u0629"],
    [code |-> "hy", name |-> "Armenian",
     native_name |-> "\\u0540\\u0561\\u0575\\u0565\\u0580\\u0565\\u0576"],
    [code |-> "az", name |-> "Azerbaijani",
     native_name |-> "Az\\u0259rbaycan"],
    [code |-> "eu", name |-> "Basque",
     native_name |-> "Euskara"],
    [code |-> "be", name |-> "Belarusian",
     native_name |-> "\\u0411\\u0435\\u043b\\u0430\\u0440\\u0443\\u0441\\u043a\\u0430\\u044f"],
    [code |-> "bn", name |-> "Bengali",
     native_name |-> "\\u09ac\\u09be\\u0982\\u09b2\\u09be"],
    [code |-> "bs", name |-> "Bosnian",
     native_name |-> "Bosanski"],
    [code |-> "bg", name |-> "Bulgarian",
     native_name |-> "\\u0411\\u044a\\u043b\\u0433\\u0430\\u0440\\u0441\\u043a\\u0438"],
    [code |-> "ca", name |-> "Catalan",
     native_name |-> "Catal\\u00e0"],
    [code |-> "ceb", name |-> "Cebuano",
     native_name |-> "Cebuano"],
    [code |-> "zh", name |-> "Chinese (Simplified)",
     native_name |-> "\\u4e2d\\u6587 (\\u7b80\\u4f53)"],
    [code |-> "zh-TW", name |-> "Chinese (Traditional)",
     native_name |-> "\\u4e2d\\u6587 (\\u7e41\\u9ad4)"],
    [code |-> "co", name |-> "Corsican",
     native_name |-> "Corsu"],
    [code |-> "hr", name |-> "Croatian",
     native_name |-> "Hrvatski"],
    [code |-> "cs", name |-> "Czech",
     native_name |-> "\\u010ce\\u0161tina"],
    [code |-> "da", name |-> "Danish",
     native_name |-> "Dansk"],
    [code |-> "nl", name |-> "Dutch",
     native_name |-> "Nederlands"],
    [code |-> "en", name |-> "English",
     native_name |-> "English"],
    [code |-> "eo", name |-> "Esperanto",
     native_name |-> "Esperanto"],
    [code |-> "et", name |-> "Estonian",
     native_name |-> "Eesti"],
    [code |-> "fi", name |-> "Finnish",
     native_name |-> "Suomi"],
    [code |-> "fr", name |-> "French",
     native_name |-> "Fran\\u00e7ais"],
    [code |-> "fy", name |-> "Frisian",
     native_name |-> "Frysk"],
    [code |-> "gl", name |-> "Galician",
     native_name |-> "Galego"],
    [code |-> "ka", name |-> "Georgian",
     native_name |-> "\\u10e5\\u10d0\\u10e0\\u10d7\\u10e3\\u10da\\u10d8"],
    [code |-> "de", name |-> "German",
     native_name |-> "Deutsch"],
    [code |-> "el", name |-> "Greek",
     native_name |-> "\\u0395\\u03bb\\u03bb\\u03b7\\u03bd\\u03b9\\u03ba\\u03ac"],
    [code |-> "gu", name |-> "Gujarati",
     native_name |-> "\\u0a97\\u0ac1\\u0a9c\\u0ab0\\u0abe\\u0aa4\\u0ac0"],
    [code |-> "ht", name |-> "Haitian Creole",
     native_name |-> "Krey\\u00f2l Ayisyen"],
    [code |-> "ha", name |-> "Hausa",
     native_name |-> "Hausa"],
    [code |-> "haw", name |-> "Hawaiian",
     native_name |-> "\\u02bb\\u014clelo Hawai\\u02bbi"],
    [code |-> "he", name |-> "Hebrew",
     native_name |-> "\\u05e2\\u05d1\\u05e8\\u05d9\\u05ea"],
    [code |-> "hi", name |-> "Hindi",
     native_name |-> "\\u0939\\u093f\\u0928\\u094d\\u0926\\u0940"],
    [code |-> "hmn", name |-> "Hmong",
     native_name |-> "Hmong"],
    [code |-> "hu", name |-> "Hungarian",
     native_name |-> "Magyar"],
    [code |-> "is", name |-> "Icelandic",
     native_name |-> "\\u00cdslenska"],
    [code |-> "ig", name |-> "Igbo",
     native_name |-> "Igbo"],
    [code |-> "id", name |-> "Indonesian",
     native_name |-> "Indonesia"],
    [code |-> "ga", name |-> "Irish",
     native_name |-> "Gaeilge"],
    [code |-> "it", name |-> "Italian",
     native_name |-> "Italiano"],
    [code |-> "ja", name |-> "Japanese",
     native_name |-> "\\u65e5\\u672c\\u8a9e"],
    [code |-> "jv", name |-> "Javanese",
     native_name |-> "Basa Jawa"],
    [code |-> "kn", name |-> "Kannada",
     native_name |-> "\\u0c95\\u0ca8\\u0ccd\\u0ca8\\u0ca1"],
    [code |-> "kk", name |-> "Kazakh",
     native_name |-> "\\u049a\\u0430\\u0437\\u0430\\u049b"],
    [code |-> "km", name |-> "Khmer",
     native_name |-> "\\u1781\\u17d2\\u1798\\u17c2\\u179a"],
    [code |-> "ko", name |-> "Korean",
     native_name |-> "\\ud55c\\uad6d\\uc5b4"],
    [code |-> "ku", name |-> "Kurdish",
     native_name |-> "Kurd\\u00ee"],
    [code |-> "ky", name |-> "Kyrgyz",
     native_name |-> "\\u041a\\u044b\\u0440\\u0433\\u044b\\u0437\\u0447\\u0430"],
    [code |-> "lo", name |-> "Lao",
     native_name |-> "\\u0ea5\\u0eb2\\u0ea7"],
    [code |-> "la", name |-> "Latin",
     native_name |-> "Latina"],
    [code |-> "lv", name |-> "Latvian",
     native_name |-> "Latvie\\u0161u"],
    [code |-> "lt", name |-> "Lithuanian",
     native_name |-> "Lietuvi\\u0173"],
    [code |-> "lb", name |-> "Luxembourgish",
     native_name |-> "L\\u00ebtzebuergesch"],
    [code |-> "mk", name |-> "Macedonian",
     native_name |-> "\\u041c\\u0430\\u043a\\u0435\\u0434\\u043e\\u043d\\u0441\\u043a\\u0438"],
    [code |-> "mg", name |-> "Malagasy",
     native_name |-> "Malagasy"],
    [code |-> "ms", name |-> "Malay",
     native_name |-> "Bahasa Melayu"],
    [code |-> "ml", name |-> "Malayalam",
     native_name |-> "\\u0d2e\\u0d32\\u0d2f\\u0d3e\\u0d33\\u0d02"],
    [code |-> "mt", name |-> "Maltese",
     native_name |-> "Malti"],
    [code |-> "mi", name |-> "Maori",
     native_name |-> "M\\u0101ori"],
    [code |-> "mr", name |-> "Marathi",
     native_name |-> "\\u092e\\u0930\\u093e\\u0920\\u0940"],
    [code |-> "mn", name |-> "Mongolian",
     native_name |-> "\\u041c\\u043e\\u043d\\u0433\\u043e\\u043b"],
    [code |-> "my", name |-> "Myanmar (Burmese)",
     native_name |-> "\\u1019\\u103c\\u1014\\u103a\\u1019\\u102c (\\u1017\\u1019\\u102c)"],
    [code |-> "ne", name |-> "Nepali",
     native_name |-> "\\u0928\\u0947\\u092a\\u093e\\u0932\\u0940"],
    [code |-> "no", name |-> "Norwegian",
     native_name |-> "Norsk"],
    [code |-> "ny", name |-> "Nyanja (Chichewa)",
     native_name |-> "Nyanja (Chichewa)"],
    [code |-> "or", name |-> "Odia (Oriya)",
     native_name |-> "\\u0b13\\u0b21\\u0b3c\\u0b3f\\u0b06 (\\u0b13\\u0b21\\u0b3c\\u0b3f\\u0b06)"],
    [code |-> "ps", name |-> "Pashto",
     native_name |-> "\\u067e\\u069a\\u062a\\u0648"],
    [code |-> "fa", name |-> "Persian",
     native_name |-> "\\u0641\\u0627\\u0631\\u0633\\u06cc"],
    [code |-> "pl", name |-> "Polish",
     native_name |-> "Polski"],
    [code |-> "pt", name |-> "Portuguese",
     native_name |-> "Portugu\\u00eas"],
    [code |-> "pa", name |-> "Punjabi",
     native_name |-> "\\u0a2a\\u0a70\\u0a1c\\u0a3e\\u0a2c\\u0a40"],
    [code |-> "ro", name |-> "Romanian",
     native_name |-> "Rom\\u00e2n\\u0103"],
    [code |-> "ru", name |-> "Russian",
     native_name |-> "\\u0420\\u0443\\u0441\\u0441\\u043a\\u0438\\u0439"],
    [code |-> "sm", name |-> "Samoan",
     native_name |-> "Gagana Samoa"],
    [code |-> "gd", name |-> "Scots Gaelic",
     native_name |-> "G\\u00e0idhlig"],
    [code |-> "sr", name |-> "Serbian",
     native_name |-> "\\u0421\\u0440\\u043f\\u0441\\u043a\\u0438"],
    [code |-> "st", name |-> "Sesotho",
     native_name |-> "Sesotho"],
    [code |-> "sn", name |-> "Shona",
     native_name |-> "Shona"],
    [code |-> "sd", name |-> "Sindhi",
     native_name |-> "\\u0633\\u0646\\u068c\\u064a"],
    [code |-> "si", name |-> "Sinhala (Sinhalese)",
     native_name |-> "\\u0dc3\\u0dd2\\u0d82\\u0dc4\\u0dbd"],
    [code |-> "sk", name |-> "Slovak",
     native_name |-> "Sloven\\u010dina"],
    [code |-> "sl", name |-> "Slovenian",
     native_name |-> "Sloven\\u0161\\u010dina"],
    [code |-> "so", name |-> "Somali",
     native_name |-> "Soomaali"],
    [code |-> "es", name |-> "Spanish",
     native_name |-> "Espa\\u00f1ol"],
    [code |-> "su", name |-> "Sundanese",
     native_name |-> "Basa Sunda"],
    [code |-> "sw", name |-> "Swahili",
     native_name |-> "Kiswahili"],
    [code |-> "sv", name |-> "Swedish",
     native_name |-> "Svenska"],
    [code |-> "tg", name |-> "Tajik",
     native_name |-> "\\u0422\\u043e\\u04b7\\u0438\\u043a\\u04e3"],
    [code |-> "ta", name |-> "Tamil",
     native_name |-> "\\u0ba4\\u0bae\\u0bbf\\u0bb4\\u0bcd"],
    [code |-> "tt", name |-> "Tatar",
     native_name |-> "\\u0422\\u0430\\u0442\\u0430\\u0440"],
    [code |-> "te", name |-> "Telugu",
     native_name |-> "\\u0c24\\u0c46\\u0c32\\u0c41\\u0c17\\u0c41"],
    [code |-> "th", name |-> "Thai",
     native_name |-> "\\u0e44\\u0e17\\u0e22"],
    [code |-> "tr", name |-> "Turkish",
     native_name |-> "T\\u00fcrk\\u00e7e"],
    [code |-> "tk", name |-> "Turkmen",
     native_name |-> "T\\u00fcrkmen"],
    [code |-> "ak", name |-> "Twi",
     native_name |-> "Twi"],
    [code |-> "uk", name |-> "Ukrainian",
     native_name |-> "\\u0423\\u043a\\u0440\\u0430\\u0457\\u043d\\u0441\\u044c\\u043a\\u0430"],
    [code |-> "ur", name |-> "Urdu",
     native_name |-> "\\u0627\\u0631\\u062f\\u0648"],
    [code |-> "ug", name |-> "Uyghur",
     native_name |-> "\\u0626\\u06c7\\u064a\\u063a\\u06c7\\u0631\\u0686\\u06d5"],
    [code |-> "uz", name |-> "Uzbek",
     native_name |-> "O'zbek"],
    [code |-> "ve", name |-> "Venda",
     native_name |-> "Tshivenda"],
    [code |-> "vi", name |-> "Vietnamese",
     native_name |-> "Ti\\u1ebfng Vi\\u1ec7t"],
    [code |-> "cy", name |-> "Welsh",
     native_name |-> "Cymraeg"],
    [code |-> "xh", name |-> "Xhosa",
     native_name |-> "isiXhosa"],
    [code |-> "yi", name |-> "Yiddish",
     native_name |-> "\\u05d9\\u05d9\\u05d3\\u05d9\\u05e9"],
    [code |-> "yo", name |-> "Yoruba",
     native_name |-> "Yor\\u00f9b\\u00e1"],
    [code |-> "zu", name |-> "Zulu",
     native_name |-> "isiZulu"]
  >>

\* main_vercel.py lines 164-179
vercel_detect_language_with_confidence(text, o) ==
  IF o.kind = "return"
  THEN [lang |-> o.lang, confidence |-> Min(95, 70 + Len(text))]
  ELSE [lang |-> "en", confidence |-> 50]

\* main_vercel.py lines 789-799
vercel_get_supported_languages(tbl) ==
  [i \in 1..Len(tbl) |->
     LanguageInfo(tbl[i].code, tbl[i].name, tbl[i].native_name)]

\* variant: the serverless handler translates also when source equals target
vercel_translate_text_NoShortCircuit(text, target, det, tr) ==
  LET d    == vercel_detect_language_with_confidence(text, det)
      dc   == <<DetectCall(text)>>
      tc   == <<TranslateCall(text, d.lang, target)>>
      sent == IF tr.kind = "raise" \/ Falsy(tr)
              THEN HTTPException(500, "Translation service error")
              ELSE Returned(TranslationResponse(text, d.lang, d.confidence,
                                                tr.value, target))
  IN  IF strip(text) = <<>>
      THEN [response |-> HttpResponse(HTTPException(400, "Text cannot be empty")),
            calls |-> <<>>]
      ELSE IF target \notin Keys(vercel_SUPPORTED_LANGUAGES)
      THEN [response |->
              HttpResponse(HTTPException(400, "Target language not supported")),
            calls |-> <<>>]
      ELSE [response |-> HttpResponse(sent), calls |-> dc \o tc]

\* main_vercel.py lines 801-849, run from entry to exit: the response and the
\* collaborator calls in their order.  Inside the inner try the
\* HTTPException of line 831 is caught by the except Exception of line 841;
\* the outer handlers (845-849) pass every HTTPException on.
vercel_translate_text(text, target, det, tr) ==
  LET d    == vercel_detect_language_with_confidence(text, det)
      dc   == <<DetectCall(text)>>
      tc   == <<TranslateCall(text, d.lang, target)>>
      body == IF tr.kind = "raise" THEN Raised(tr.msg)
              ELSE IF Falsy(tr) THEN HTTPException(500, "Translation failed")
              ELSE Returned(TranslationResponse(text, d.lang, d.confidence,
                                                tr.value, target))
      sent == IF body.kind = "raise"
              THEN HTTPException(500, "Translation service error")
              ELSE body
  IN  IF strip(text) = <<>>
      THEN [response |-> HttpResponse(HTTPException(400, "Text cannot be empty")),
            calls |-> <<>>]
      ELSE IF target \notin Keys(vercel_SUPPORTED_LANGUAGES)
      THEN [response |->
              HttpResponse(HTTPException(400, "Target language not supported")),
            calls |-> <<>>]
      ELSE IF d.lang = target
      THEN [response |->
              HttpResponse(Returned(TranslationResponse(text, d.lang,
                                      d.confidence, text, target))),
            calls |-> dc]
      ELSE [response |-> HttpResponse(sent), calls |-> dc \o tc]

\* C28: the pipeline of app/main_vercel.py is equivalent to that of
\* app/main.py: for every request and every behaviour of the collaborators
\* the two translate_text handlers make the same calls in the same order and
\* give the same status and body, and the two get_supported_languages
\* handlers give the same list.
C28_VercelEquivalent ==
  /\ \A r \in Reqs :
       Done(r)
         => LET v == vercel_translate_text(
                       reqs[r].text, reqs[r].target_language,
                       DetectorAnswer(reqs[r]), reqs[r].translate_result)
            IN  /\ reqs[r].response = v.response
                /\ reqs[r].calls = v.calls
  /\ api.languages.status # 0
       => api.languages.body
            = vercel_get_supported_languages(vercel_SUPPORTED_LANGUAGES)

C28_Witness ==
  /\ api.languages.status = 200
  /\ \E r \in Reqs :
       /\ Done(r)
       /\ reqs[r].translate_result.kind = "return"
       /\ reqs[r].translate_result.value = <<>>
       /\ Len(reqs[r].calls) = 2
       /\ reqs[r].response.status = 500

\* C29: in the front end at most one /api/translate request is in flight at
\* a time: while one is pending no click and no Ctrl+Enter starts a second,
\* so displayed results belong to the most recently submitted text.
C29_OneRequestInFlight ==
  /\ Len(ui.pending) <= 1
  /\ ui.resultsShown => ui.originalText = ui.submitted

\* C30: every translate() call that sent a request has, when it ends, the
\* loading indicator hidden, the button enabled and exactly one of results
\* and error message shown; a call with empty trimmed text or without a
\* target shows an error and sends no request.
C30_CallEndsWithOneOutcome ==
  /\ ui.event = "completed"
       => /\ ~ui.loading
          /\ ~ui.btnDisabled
          /\ ui.resultsShown # ui.errorShown
  /\ ui.event = "rejected" => ui.errorShown
  /\ \A i \in 1..Len(ui.pending) :
       ui.pending[i].text # <<>> /\ ui.pending[i].target # ""

====
